---- MODULE Spec2Model ----
(***************************************************************************)
(* Battle synchronisation core of whos_that_mortal_pokemon:                *)
(* src/context/battle-context.tsx (BattleProvider) together with the       *)
(* BattleScreen effects and buttons of src/app/(tabs)/index.tsx that       *)
(* invoke it.  The Firestore collection 'rooms' is the variable rooms;     *)
(* every session has its own React state and its own in-flight calls.      *)
(*                                                                         *)
(* Suspension points.  createRoom and joinRoom are split at each await     *)
(* (getDoc, then setDoc/updateDoc).  startGame, nextRound and playAgain    *)
(* are split at the call (closure values captured) and at the updateDoc    *)
(* that follows the creature fetch.  The countdown effect's write of       *)
(* status 'playing' is split into its issue and its arrival.  submitGuess  *)
(* and leaveRoom compute their write from the caller's React state and     *)
(* issue a single store call: call and write are one step, the staleness   *)
(* of the React state (room is only refreshed by Deliver) being what the   *)
(* write is computed from.                                                 *)
(*                                                                         *)
(* Specifications.  Spec is the lobby from construction (createRoom,       *)
(* joinRoom, leaveRoom).  JoinSpec starts from a ready room (joins, leaves,*)
(* startGame).  GameSpec starts from the room startGame leaves and plays   *)
(* the game; StaleSpec is the same game without buttons and with listeners *)
(* further behind.  RematchSpec starts from a finished game (leave, join,  *)
(* startGame or Play Again, and the game that follows).  Every initial     *)
(* state is one the preceding specification reaches.  budget bounds the    *)
(* button presses and lag the snapshots a listener has not yet delivered.  *)
(* FairJoinSpec and FairGameSpec are JoinSpec and StaleSpec under fair     *)
(* scheduling (FairGameSpec without failing calls).  GenSpec runs          *)
(* generateRoomCode alone, its code held in createPc.                      *)
(*                                                                         *)
(* Not modelled: timestamps (countdownStartAt is null or "ts", createdAt   *)
(* is left out), creature artwork, the text normalisation of a guess       *)
(* (guesses are drawn already normalised).                                 *)
(***************************************************************************)
EXTENDS Integers, FiniteSets, Sequences, TLC

\* ---------------------------------------------------------------- bounds
\* Sessions (BattleProvider instances); playerId of a session is its name.
Sessions == {"p1", "p2", "p3"}
\* Room codes generateRoomCode can return.
Codes == {"AB23CD"}
\* Creature names fetchRandomPokemon can return, and the normalised guesses.
Pokemon == {"pikachu"}
Guesses == {"pikachu", "mew"}
\* Scores are not reset by startGame, so they grow across games: cap.
MaxScore == 4
\* currentRound grows with every nextRound: cap.
MaxRound == 6
\* Button presses (Create Room, Join, Leave, START BATTLE, Play Again) explored
\* from an empty lobby or a ready room, in a game, and after a finished game.
MaxPresses == 4
MaxGamePresses == 1
MaxRematchPresses == 3
\* Changes of its room's document a session's listener may be behind by.
MaxLag == 1
\* The same bound where only the game's own steps are explored (no button).
MaxStale == 2

\* ------------------------------------------------------------- constants
MaxAttempts == 10
TotalRounds == 5
RoundLimit == 5
WinScore == 3

Null == "null"
\* A missing document in the store / the React state room === null.
Absent == [exists |-> FALSE]
NoRoom == [exists |-> FALSE, local |-> TRUE]
\* PlayerGuess | null
NoGuess == [guess |-> Null]

VARIABLES
    rooms,          \* Firestore: code -> RoomData or Absent
    roomCode,       \* useState roomCode, per session
    room,           \* useState room: the last snapshot delivered
    playerRole,     \* useState playerRole
    battleState,    \* useState battleState
    error,          \* useState error
    createPc,       \* createRoom in flight
    joinPc,         \* joinRoom in flight
    hostOp,         \* startGame / nextRound / playAgain in flight
    playingWrite,   \* the countdown effect's updateDoc({status:'playing'}) in flight
    timerArmed,     \* the round-end effect's interval is running
    budget,         \* button presses left (bounds the exploration)
    lag,            \* changes of the room not yet delivered (bounds the staleness)
    lagBound        \* the bound on lag in this behaviour

vars == <<rooms, roomCode, room, playerRole, battleState, error,
          createPc, joinPc, hostOp, playingWrite, timerArmed, budget, lag, lagBound>>

\* ------------------------------------------------------------ the store
Exists(doc) == doc # Absent

\* updateDoc merges the given fields into the document.
Merge(doc, upd) ==
    [f \in DOMAIN doc |-> IF f \in DOMAIN upd THEN upd[f] ELSE doc[f]]

\* The roomData createRoom writes.
NewRoom(s) ==
    [hostId |-> s, guestId |-> Null, status |-> "waiting", currentRound |-> 0,
     totalRounds |-> TotalRounds, currentPokemon |-> Null,
     scores |-> [host |-> 0, guest |-> 0], roundWinner |-> Null,
     gameWinner |-> Null, hostGuess |-> NoGuess, guestGuess |-> NoGuess,
     countdownStartAt |-> Null]

IdleCreate == [pc |-> "idle", code |-> Null, attempts |-> 0]
IdleJoin == [pc |-> "idle", code |-> Null]
NoOp == [op |-> "none", code |-> Null, round |-> 0]

\* The round-end effect (deps battleState, playerRole) runs again when one of
\* them changes: it starts the interval in round_end and clears it otherwise.
ArmedAfter(s, bs, role) ==
    IF bs = "round_end"
    THEN IF battleState[s] = "round_end" /\ role = playerRole[s]
         THEN timerArmed[s] ELSE TRUE
    ELSE FALSE

\* React state of session s after the setters of one handler have run.
SetLocal(s, code, snap, role, bs, err) ==
    /\ roomCode' = [roomCode EXCEPT ![s] = code]
    /\ room' = [room EXCEPT ![s] = snap]
    /\ playerRole' = [playerRole EXCEPT ![s] = role]
    /\ battleState' = [battleState EXCEPT ![s] = bs]
    /\ error' = [error EXCEPT ![s] = err]
    /\ timerArmed' = [timerArmed EXCEPT ![s] = ArmedAfter(s, bs, role)]

\* setError(e); setBattleState(bs): the other fields keep their values.
SetState(s, bs, err) ==
    SetLocal(s, roomCode[s], room[s], playerRole[s], bs, err)

\* The listener of x falls one change behind when the document of its room
\* changes, and is level again once its snapshot is the document.
Behind ==
    /\ lag' = [x \in Sessions |->
                 IF roomCode'[x] = Null THEN 0
                 ELSE IF room'[x] = rooms'[roomCode'[x]] THEN 0
                 ELSE IF roomCode'[x] # roomCode[x] THEN 1
                 ELSE IF rooms'[roomCode[x]] # rooms[roomCode[x]] THEN lag[x] + 1
                 ELSE lag[x]]
    /\ \A x \in Sessions : lag'[x] <= lagBound
    /\ UNCHANGED lagBound

\* A button is pressed / no button is pressed in this step.
Press == budget > 0 /\ budget' = budget - 1
NoPress == UNCHANGED budget

Init ==
    /\ rooms = [c \in Codes |-> Absent]
    /\ roomCode = [s \in Sessions |-> Null]
    /\ room = [s \in Sessions |-> NoRoom]
    /\ playerRole = [s \in Sessions |-> Null]
    /\ battleState = [s \in Sessions |-> "idle"]
    /\ error = [s \in Sessions |-> Null]
    /\ createPc = [s \in Sessions |-> IdleCreate]
    /\ joinPc = [s \in Sessions |-> IdleJoin]
    /\ hostOp = [s \in Sessions |-> NoOp]
    /\ playingWrite = [s \in Sessions |-> Null]
    /\ timerArmed = [s \in Sessions |-> FALSE]
    /\ budget = MaxPresses
    /\ lag = [s \in Sessions |-> 0]
    /\ lagBound = MaxLag

\* ---------------------------------------------------------- createRoom
\* The Create Room button is shown on the menu (idle, creating, joining) and
\* disabled while creating.
CanPressCreate(s) == battleState[s] \in {"idle", "joining"}

\* createRoom up to its first getDoc: setError(null), setBattleState('creating'),
\* code = generateRoomCode() (the code c drawn), attempts = 0.
CreateRoom(s, c) ==
    /\ Press
    /\ CanPressCreate(s)
    /\ createPc[s].pc = "idle"
    /\ createPc' = [createPc EXCEPT ![s] = [pc |-> "get", code |-> c, attempts |-> 0]]
    /\ SetState(s, "creating", Null)
    /\ UNCHANGED <<rooms, joinPc, hostOp, playingWrite>>
    /\ Behind

\* One turn of the loop: getDoc(code) answers; a free code leaves the loop, a
\* taken one draws a new code and counts the attempt; the loop also ends when
\* attempts reaches MaxAttempts, with the code drawn last (c) and not looked up.
CreateGet(s, c) ==
    /\ NoPress
    /\ createPc[s].pc = "get"
    /\ LET p == createPc[s] IN
       IF ~Exists(rooms[p.code])
       THEN createPc' = [createPc EXCEPT ![s].pc = "set"]
       ELSE createPc' = [createPc EXCEPT ![s] =
                  [pc |-> IF p.attempts + 1 < MaxAttempts THEN "get" ELSE "set",
                   code |-> c, attempts |-> p.attempts + 1]]
    /\ UNCHANGED <<rooms, roomCode, room, playerRole, battleState, error,
                   joinPc, hostOp, playingWrite, timerArmed>>
    /\ Behind

\* setDoc(doc(db,'rooms',code), roomData): writes the document whether or not
\* one exists; then setRoomCode, setPlayerRole('host'), setBattleState('waiting').
CreateSet(s) ==
    /\ NoPress
    /\ createPc[s].pc = "set"
    /\ rooms' = [rooms EXCEPT ![createPc[s].code] = NewRoom(s)]
    /\ SetLocal(s, createPc[s].code, room[s], "host", "waiting", error[s])
    /\ createPc' = [createPc EXCEPT ![s] = IdleCreate]
    /\ UNCHANGED <<joinPc, hostOp, playingWrite>>
    /\ Behind

\* getDoc or setDoc rejects: the catch block.
CreateFails(s) ==
    /\ NoPress
    /\ createPc[s].pc \in {"get", "set"}
    /\ SetState(s, "idle", "Failed to create room. Please try again.")
    /\ createPc' = [createPc EXCEPT ![s] = IdleCreate]
    /\ UNCHANGED <<rooms, joinPc, hostOp, playingWrite>>
    /\ Behind

\* ------------------------------------------------------------ joinRoom
\* The Join button is shown on the menu and disabled while joining (and until
\* six characters are typed).
CanPressJoin(s) == battleState[s] \in {"idle", "creating"}

\* joinRoom(c) up to its getDoc: setError(null), setBattleState('joining').
JoinRoom(s, c) ==
    /\ Press
    /\ CanPressJoin(s)
    /\ joinPc[s].pc = "idle"
    /\ joinPc' = [joinPc EXCEPT ![s] = [pc |-> "get", code |-> c]]
    /\ SetState(s, "joining", Null)
    /\ UNCHANGED <<rooms, createPc, hostOp, playingWrite>>
    /\ Behind

\* joinRoom without its third check (status !== 'waiting'): a fault the
\* properties of joinRoom's errors have to tell from the code.
JoinErrorNoStatus(doc) ==
    IF ~Exists(doc) THEN "Room not found. Check the code and try again."
    ELSE IF doc.guestId # Null THEN "Room is full. Try a different code."
    ELSE Null

\* The error joinRoom reports for the document getDoc returned, Null when the
\* three checks pass.
JoinError(doc) ==
    IF ~Exists(doc) THEN "Room not found. Check the code and try again."
    ELSE IF doc.guestId # Null THEN "Room is full. Try a different code."
    ELSE IF doc.status # "waiting" THEN "Game already in progress."
    ELSE Null

\* getDoc answers and the three checks run on what it returned.
JoinGet(s) ==
    /\ NoPress
    /\ joinPc[s].pc = "get"
    /\ LET e == JoinError(rooms[joinPc[s].code]) IN
       IF e # Null
       THEN /\ SetState(s, "idle", e)
            /\ joinPc' = [joinPc EXCEPT ![s] = IdleJoin]
       ELSE /\ joinPc' = [joinPc EXCEPT ![s].pc = "upd"]
            /\ UNCHANGED <<roomCode, room, playerRole, battleState, error, timerArmed>>
    /\ UNCHANGED <<rooms, createPc, hostOp, playingWrite>>
    /\ Behind

\* The fields joinRoom's updateDoc writes.
JoinUpdate(s) == [guestId |-> s, status |-> "ready"]

\* updateDoc arrives (it rejects when the document is gone: the catch block);
\* then setRoomCode, setPlayerRole('guest'), setBattleState('ready').
JoinUpd(s) ==
    /\ NoPress
    /\ joinPc[s].pc = "upd"
    /\ LET c == joinPc[s].code IN
       IF Exists(rooms[c])
       THEN /\ rooms' = [rooms EXCEPT ![c] = Merge(rooms[c], JoinUpdate(s))]
            /\ SetLocal(s, c, room[s], "guest", "ready", error[s])
       ELSE /\ SetState(s, "idle", "Failed to join room. Please try again.")
            /\ UNCHANGED rooms
    /\ joinPc' = [joinPc EXCEPT ![s] = IdleJoin]
    /\ UNCHANGED <<createPc, hostOp, playingWrite>>
    /\ Behind

\* getDoc or updateDoc rejects (transport): the catch block.
JoinFails(s) ==
    /\ NoPress
    /\ joinPc[s].pc \in {"get", "upd"}
    /\ SetState(s, "idle", "Failed to join room. Please try again.")
    /\ joinPc' = [joinPc EXCEPT ![s] = IdleJoin]
    /\ UNCHANGED <<rooms, createPc, hostOp, playingWrite>>
    /\ Behind

\* ----------------------------------------------------------- leaveRoom
\* Leave buttons exist on the waiting, ready and finished screens.
CanPressLeave(s) == battleState[s] \in {"waiting", "ready", "finished"}

\* A leave that would also clear the round's fields when the guest goes.
AfterLeaveClearing(s) ==
    LET c == roomCode[s] IN
    IF playerRole[s] = "host" THEN [rooms EXCEPT ![c] = Absent]
    ELSE IF playerRole[s] = "guest" /\ Exists(rooms[c])
    THEN [rooms EXCEPT ![c] = Merge(rooms[c],
             [guestId |-> Null, status |-> "waiting", roundWinner |-> Null,
              gameWinner |-> Null, hostGuess |-> NoGuess, guestGuess |-> NoGuess])]
    ELSE rooms

\* The store after leaveRoom's write: the host deletes the document, the guest
\* updates guestId and status (updateDoc rejects on a missing document, which
\* the catch block only logs).
AfterLeave(s) ==
    LET c == roomCode[s] IN
    IF playerRole[s] = "host" THEN [rooms EXCEPT ![c] = Absent]
    ELSE IF playerRole[s] = "guest" /\ Exists(rooms[c])
    THEN [rooms EXCEPT ![c] = Merge(rooms[c], [guestId |-> Null, status |-> "waiting"])]
    ELSE rooms

\* A leaveRoom that would return from its catch block: no reset after a
\* rejected write.
LeaveRoomReturnsOnError(s) ==
    /\ Press
    /\ CanPressLeave(s)
    /\ roomCode[s] # Null
    /\ \/ rooms' = AfterLeave(s) /\ SetLocal(s, Null, NoRoom, Null, "idle", Null)
       \/ /\ rooms' = rooms
          /\ UNCHANGED <<roomCode, room, playerRole, battleState, error, timerArmed>>
    /\ UNCHANGED <<createPc, joinPc, hostOp, playingWrite>>
    /\ Behind

\* leaveRoom: the write, or its failure, then the reset of the React state.
LeaveRoom(s) ==
    /\ Press
    /\ CanPressLeave(s)
    /\ roomCode[s] # Null
    /\ \/ rooms' = AfterLeave(s)
       \/ rooms' = rooms
    /\ SetLocal(s, Null, NoRoom, Null, "idle", Null)
    /\ UNCHANGED <<createPc, joinPc, hostOp, playingWrite>>
    /\ Behind

\* A listener without the branch for a deleted room: it only drops the
\* snapshot.
DeliverNoReset(s) ==
    /\ NoPress
    /\ roomCode[s] # Null
    /\ room[s] # rooms[roomCode[s]]
    /\ LET doc == rooms[roomCode[s]] IN
       IF Exists(doc)
       THEN SetLocal(s, roomCode[s], doc, playerRole[s], doc.status, error[s])
       ELSE SetLocal(s, roomCode[s], NoRoom, playerRole[s], battleState[s], error[s])
    /\ UNCHANGED <<rooms, createPc, joinPc, hostOp, playingWrite>>
    /\ Behind

\* ------------------------------------------------------ room listener
\* onSnapshot's callback with the document as it is now in the store: the
\* first snapshot after subscribing, or one after a change.
Deliver(s) ==
    /\ NoPress
    /\ roomCode[s] # Null
    /\ room[s] # rooms[roomCode[s]]
    /\ LET doc == rooms[roomCode[s]] IN
       IF Exists(doc)
       THEN SetLocal(s, roomCode[s], doc, playerRole[s], doc.status, error[s])
       ELSE SetLocal(s, Null, NoRoom, Null, "idle", error[s])
    /\ UNCHANGED <<rooms, createPc, joinPc, hostOp, playingWrite>>
    /\ Behind

\* ------------------------------------- startGame, nextRound, playAgain
\* START BATTLE is shown to the host on the ready screen.
CanPressStart(s) == battleState[s] = "ready" /\ playerRole[s] = "host"

\* startGame up to its fetch: the guard, with roomCode taken from the closure.
StartGame(s) ==
    /\ Press
    /\ CanPressStart(s)
    /\ roomCode[s] # Null /\ playerRole[s] = "host"
    /\ hostOp[s] = NoOp
    /\ hostOp' = [hostOp EXCEPT ![s] =
                    [op |-> "startGame", code |-> roomCode[s], round |-> 1]]
    /\ UNCHANGED <<rooms, roomCode, room, playerRole, battleState, error,
                   createPc, joinPc, playingWrite, timerArmed>>
    /\ Behind

\* The round-end effect without its role check (a session that is not host
\* calls nextRound too, and nextRound does not look at playerRole): a fault
\* the host-only properties have to tell from the code.
NextRoundAnyRole(s) ==
    /\ NoPress
    /\ battleState[s] = "round_end" /\ timerArmed[s]
    /\ timerArmed' = [timerArmed EXCEPT ![s] = FALSE]
    /\ room[s] # NoRoom => room[s].currentRound < MaxRound
    /\ IF roomCode[s] # Null /\ room[s] # NoRoom /\ hostOp[s] = NoOp
       THEN hostOp' = [hostOp EXCEPT ![s] =
                [op |-> "nextRound", code |-> roomCode[s],
                 round |-> room[s].currentRound + 1]]
       ELSE UNCHANGED hostOp
    /\ UNCHANGED <<rooms, roomCode, room, playerRole, battleState, error,
                   createPc, joinPc, playingWrite>>
    /\ Behind

\* The round-end interval reaches zero: the host calls nextRound, whose closure
\* holds roomCode, playerRole and room; the interval clears itself.
NextRound(s) ==
    /\ NoPress
    /\ battleState[s] = "round_end" /\ timerArmed[s]
    /\ timerArmed' = [timerArmed EXCEPT ![s] = FALSE]
    /\ room[s] # NoRoom => room[s].currentRound < MaxRound
    /\ IF playerRole[s] = "host" /\ roomCode[s] # Null /\ room[s] # NoRoom
          /\ hostOp[s] = NoOp
       THEN hostOp' = [hostOp EXCEPT ![s] =
                [op |-> "nextRound", code |-> roomCode[s],
                 round |-> room[s].currentRound + 1]]
       ELSE UNCHANGED hostOp
    /\ UNCHANGED <<rooms, roomCode, room, playerRole, battleState, error,
                   createPc, joinPc, playingWrite>>
    /\ Behind

\* Play Again is shown to the host on the finished screen.
CanPressPlayAgain(s) == battleState[s] = "finished" /\ playerRole[s] = "host"

PlayAgain(s) ==
    /\ Press
    /\ CanPressPlayAgain(s)
    /\ roomCode[s] # Null /\ playerRole[s] = "host"
    /\ hostOp[s] = NoOp
    /\ hostOp' = [hostOp EXCEPT ![s] =
                    [op |-> "playAgain", code |-> roomCode[s], round |-> 1]]
    /\ UNCHANGED <<rooms, roomCode, room, playerRole, battleState, error,
                   createPc, joinPc, playingWrite, timerArmed>>
    /\ Behind

\* The fields the pending call's updateDoc writes, with the creature fetched.
HostUpdate(o, pokemon) ==
    IF o.op = "playAgain"
    THEN [status |-> "countdown", currentRound |-> 1, currentPokemon |-> pokemon,
          scores |-> [host |-> 0, guest |-> 0], roundWinner |-> Null,
          gameWinner |-> Null, hostGuess |-> NoGuess, guestGuess |-> NoGuess,
          countdownStartAt |-> "ts"]
    ELSE [status |-> "countdown", currentRound |-> o.round,
          currentPokemon |-> pokemon, roundWinner |-> Null,
          hostGuess |-> NoGuess, guestGuess |-> NoGuess,
          countdownStartAt |-> "ts"]

\* What the catch block of the pending call does: startGame sets the error,
\* nextRound and playAgain only log.
HostCatch(s) ==
    IF hostOp[s].op = "startGame"
    THEN SetState(s, battleState[s], "Failed to start game. Please try again.")
    ELSE UNCHANGED <<roomCode, room, playerRole, battleState, error, timerArmed>>

\* fetchRandomPokemon resolves and updateDoc arrives (it rejects when the
\* document is gone).
HostOpLands(s) ==
    /\ NoPress
    /\ hostOp[s] # NoOp
    /\ LET c == hostOp[s].code IN
       IF Exists(rooms[c])
       THEN /\ \E p \in Pokemon :
                 rooms' = [rooms EXCEPT ![c] = Merge(rooms[c], HostUpdate(hostOp[s], p))]
            /\ UNCHANGED <<roomCode, room, playerRole, battleState, error, timerArmed>>
       ELSE /\ HostCatch(s)
            /\ UNCHANGED rooms
    /\ hostOp' = [hostOp EXCEPT ![s] = NoOp]
    /\ UNCHANGED <<createPc, joinPc, playingWrite>>
    /\ Behind

\* The fetch or the updateDoc rejects (transport).
HostOpFails(s) ==
    /\ NoPress
    /\ hostOp[s] # NoOp
    /\ HostCatch(s)
    /\ hostOp' = [hostOp EXCEPT ![s] = NoOp]
    /\ UNCHANGED <<rooms, createPc, joinPc, playingWrite>>
    /\ Behind

\* ---------------------------------------------------- countdown effect
\* updateCountdown with remaining <= 0 on the host: updateDoc({status:'playing'})
\* is issued, not awaited (the interval repeats it every 100 ms while the
\* effect is alive; one write in flight stands for them).
CountdownElapsed(s) ==
    /\ NoPress
    /\ battleState[s] = "countdown"
    /\ room[s] # NoRoom /\ room[s].countdownStartAt # Null
    /\ playerRole[s] = "host"
    /\ roomCode[s] # Null
    /\ playingWrite[s] = Null
    /\ playingWrite' = [playingWrite EXCEPT ![s] = roomCode[s]]
    /\ UNCHANGED <<rooms, roomCode, room, playerRole, battleState, error,
                   createPc, joinPc, hostOp, timerArmed>>
    /\ Behind

\* That write arrives (or is rejected: nothing handles the rejection).
PlayingWriteLands(s) ==
    /\ NoPress
    /\ playingWrite[s] # Null
    /\ LET c == playingWrite[s] IN
       \/ /\ Exists(rooms[c])
          /\ rooms' = [rooms EXCEPT ![c] = Merge(rooms[c], [status |-> "playing"])]
       \/ UNCHANGED rooms
    /\ playingWrite' = [playingWrite EXCEPT ![s] = Null]
    /\ UNCHANGED <<roomCode, room, playerRole, battleState, error,
                   createPc, joinPc, hostOp, timerArmed>>
    /\ Behind

\* ---------------------------------------------------------- submitGuess
\* The guards of submitGuess, on the caller's React state.
CanGuess(s) ==
    /\ roomCode[s] # Null /\ room[s] # NoRoom /\ playerRole[s] # Null
    /\ room[s].status = "playing"
    /\ room[s].currentPokemon # Null
    /\ (IF playerRole[s] = "host" THEN room[s].hostGuess ELSE room[s].guestGuess) = NoGuess

IsCorrect(s, g) == g = room[s].currentPokemon

\* What submitGuess returns.
SubmitGuessResult(s, g) == IF CanGuess(s) THEN IsCorrect(s, g) ELSE FALSE

GuessField(role, gd) ==
    IF role = "host" THEN [hostGuess |-> gd] ELSE [guestGuess |-> gd]

\* A scoring that would credit both players.
BumpBoth(scores, role) == [host |-> scores.host + 1, guest |-> scores.guest + 1]

Bump(scores, role) == [scores EXCEPT ![role] = @ + 1]

\* gameWinner of the correct branch.
WinnerCorrect(sc) == IF sc.host > sc.guest THEN "host" ELSE "guest"

\* gameWinner of the both-wrong branch.
WinnerBothWrong(sc) ==
    IF sc.host > sc.guest THEN "host"
    ELSE IF sc.guest > sc.host THEN "guest" ELSE Null

\* isGameOver of the correct branch.
GameOverCorrect(r, newScores, role) ==
    r.currentRound >= RoundLimit \/ newScores[role] >= WinScore

\* isGameOver of the both-wrong branch.
GameOverBothWrong(r) == r.currentRound >= RoundLimit

\* The fields submitGuess writes, computed from the caller's snapshot r.
GuessUpdate(r, role, g, correct) ==
    LET gd == [guess |-> g, correct |-> correct]
        other == IF role = "host" THEN r.guestGuess ELSE r.hostGuess
        newScores == Bump(r.scores, role)
        base == GuessField(role, gd)
    IN  IF correct
        THEN LET over == GameOverCorrect(r, newScores, role)
                 u == base @@ [roundWinner |-> role, scores |-> newScores,
                               status |-> IF over THEN "finished" ELSE "round_end"]
             IN  IF over THEN u @@ [gameWinner |-> WinnerCorrect(newScores)] ELSE u
        ELSE IF other # NoGuess /\ ~other.correct
        THEN LET over == GameOverBothWrong(r)
                 u == base @@ [roundWinner |-> "none",
                               status |-> IF over THEN "finished" ELSE "round_end"]
             IN  IF over THEN u @@ [gameWinner |-> WinnerBothWrong(r.scores)] ELSE u
        ELSE base

\* A guess typed on the playing screen: the guards pass, the update computed
\* from the React state reaches the store (updateDoc rejects on a missing
\* document, which the catch block only logs).
SubmitGuess(s, g) ==
    /\ NoPress
    /\ battleState[s] = "playing"
    /\ CanGuess(s)
    /\ IsCorrect(s, g) => room[s].scores[playerRole[s]] < MaxScore
    /\ LET c == roomCode[s] IN
       IF Exists(rooms[c])
       THEN rooms' = [rooms EXCEPT ![c] =
                Merge(rooms[c], GuessUpdate(room[s], playerRole[s], g, IsCorrect(s, g)))]
       ELSE UNCHANGED rooms
    /\ UNCHANGED <<roomCode, room, playerRole, battleState, error,
                   createPc, joinPc, hostOp, playingWrite, timerArmed>>
    /\ Behind

\* ------------------------------------------------------ specifications
\* The lobby, from construction: every session idle, the store empty.
Next ==
    \E s \in Sessions :
        \/ \E c \in Codes : CreateRoom(s, c)
        \/ \E c \in Codes : CreateGet(s, c)
        \/ CreateSet(s) \/ CreateFails(s)
        \/ \E c \in Codes : JoinRoom(s, c)
        \/ JoinGet(s) \/ JoinUpd(s) \/ JoinFails(s)
        \/ LeaveRoom(s) \/ Deliver(s)

Spec == Init /\ [][Next]_vars

\* A game: p1 has created GameCode, p2 has joined it and p1 has started the
\* game; the two play.
GameCode == CHOOSE c \in Codes : TRUE
Players == {"p1", "p2"}

ReadyRoom == Merge(NewRoom("p1"), JoinUpdate("p2"))

\* The room once p1's startGame has arrived and both listeners have been told.
StartedRoom(p) == Merge(ReadyRoom, HostUpdate([op |-> "startGame", code |-> GameCode, round |-> 1], p))

\* p1 and p2 are host and guest of GameCode, whose document is doc, and both
\* listeners have delivered it; p3 is on the menu.
PlayersIn(doc, presses, behind) ==
    /\ rooms = [c \in Codes |-> IF c = GameCode THEN doc ELSE Absent]
    /\ room = [s \in Sessions |-> IF s \in Players THEN doc ELSE NoRoom]
    /\ roomCode = [s \in Sessions |-> IF s \in Players THEN GameCode ELSE Null]
    /\ playerRole = [s \in Sessions |->
                       IF s = "p1" THEN "host" ELSE IF s = "p2" THEN "guest" ELSE Null]
    /\ battleState = [s \in Sessions |-> IF s \in Players THEN doc.status ELSE "idle"]
    /\ error = [s \in Sessions |-> Null]
    /\ createPc = [s \in Sessions |-> IdleCreate]
    /\ joinPc = [s \in Sessions |-> IdleJoin]
    /\ hostOp = [s \in Sessions |-> NoOp]
    /\ playingWrite = [s \in Sessions |-> Null]
    /\ timerArmed = [s \in Sessions |-> FALSE]
    /\ budget = presses
    /\ lag = [s \in Sessions |-> 0]
    /\ lagBound = behind

GameInit == \E p \in Pokemon : PlayersIn(StartedRoom(p), MaxGamePresses, MaxLag)

\* A ready room and a third session: joins, leaves and the host's startGame.
JoinInit == PlayersIn(ReadyRoom, MaxPresses, MaxLag)

JoinNext ==
    \E s \in Sessions :
        \/ \E c \in Codes : JoinRoom(s, c)
        \/ JoinGet(s) \/ JoinUpd(s) \/ JoinFails(s)
        \/ LeaveRoom(s) \/ Deliver(s)
        \/ StartGame(s) \/ HostOpLands(s) \/ HostOpFails(s)

JoinSpec == JoinInit /\ [][JoinNext]_vars

\* The ready room again, the store delivering to every open subscription:
\* onSnapshot calls the listener back after each change of the document, so
\* a snapshot that differs from the local one does not stay undelivered.
FairJoinSpec == JoinSpec /\ \A s \in Sessions : WF_vars(Deliver(s))

GameNext ==
    \E s \in Players :
        \/ LeaveRoom(s) \/ Deliver(s)
        \/ NextRound(s) \/ PlayAgain(s)
        \/ HostOpLands(s) \/ HostOpFails(s)
        \/ CountdownElapsed(s) \/ PlayingWriteLands(s)
        \/ \E g \in Guesses : SubmitGuess(s, g)

GameSpec == GameInit /\ [][GameNext]_vars

\* The same game without buttons (nobody leaves, no rematch), the listeners
\* being allowed to fall further behind.
StaleInit == \E p \in Pokemon : PlayersIn(StartedRoom(p), 0, MaxStale)

StaleNext ==
    \E s \in Players :
        \/ Deliver(s)
        \/ NextRound(s)
        \/ HostOpLands(s) \/ HostOpFails(s)
        \/ CountdownElapsed(s) \/ PlayingWriteLands(s)
        \/ \E g \in Guesses : SubmitGuess(s, g)

StaleSpec == StaleInit /\ [][StaleNext]_vars

\* A game in which nothing fails and every step that can be taken is taken:
\* snapshots are delivered, the host's timers fire, its fetches resolve and
\* its writes arrive, and each player goes on guessing while its screen
\* takes guesses.
FairGameNext ==
    \E s \in Players :
        \/ Deliver(s)
        \/ NextRound(s)
        \/ HostOpLands(s)
        \/ CountdownElapsed(s)
        \/ PlayingWriteLands(s) /\ rooms'[GameCode].status = "playing"
        \/ \E g \in Guesses : SubmitGuess(s, g)

FairGameSpec ==
    /\ StaleInit /\ [][FairGameNext]_vars
    /\ \A s \in Players :
          /\ WF_vars(Deliver(s))
          /\ SF_vars(NextRound(s))
          /\ SF_vars(HostOpLands(s))
          /\ SF_vars(CountdownElapsed(s))
          /\ SF_vars(PlayingWriteLands(s) /\ rooms'[GameCode].status = "playing")
          /\ SF_vars(\E g \in Guesses : SubmitGuess(s, g))

\* After a game the host has won 3-0 in three rounds: the guest leaves, a
\* session joins, the host starts the next game (or presses Play Again).
FinishedRoom(p) ==
    Merge(StartedRoom(p),
          [status |-> "finished", currentRound |-> 3,
           scores |-> [host |-> 3, guest |-> 0], roundWinner |-> "host",
           gameWinner |-> "host", hostGuess |-> [guess |-> p, correct |-> TRUE]])

RematchInit == \E p \in Pokemon : PlayersIn(FinishedRoom(p), MaxRematchPresses, MaxLag)

RematchNext ==
    \E s \in Sessions :
        \/ \E c \in Codes : JoinRoom(s, c)
        \/ JoinGet(s) \/ JoinUpd(s) \/ JoinFails(s)
        \/ LeaveRoom(s) \/ Deliver(s)
        \/ StartGame(s) \/ NextRound(s) \/ PlayAgain(s)
        \/ HostOpLands(s) \/ HostOpFails(s)
        \/ CountdownElapsed(s) \/ PlayingWriteLands(s)
        \/ \E g \in Guesses : SubmitGuess(s, g)

RematchSpec == RematchInit /\ [][RematchNext]_vars

\* ------------------------------------------------------------ properties
\* Sessions a and b are the host and the guest of room c, as a createRoom by
\* a followed by a joinRoom(c) by b leaves them.
HostAndGuest(a, b, c) ==
    /\ a # b
    /\ Exists(rooms[c]) /\ rooms[c].hostId = a /\ rooms[c].guestId = b
    /\ roomCode[a] = c /\ playerRole[a] = "host"
    /\ roomCode[b] = c /\ playerRole[b] = "guest"

\* joinRoom(c) of b succeeds in this step on the room a has just created.
JoinsFresh(a, b, c) ==
    /\ a # b
    /\ rooms[c] = NewRoom(a) /\ roomCode[a] = c /\ playerRole[a] = "host"
    /\ joinPc[b] = [pc |-> "upd", code |-> c]
    /\ joinPc'[b] = IdleJoin /\ rooms' # rooms

\* C1: when b's joinRoom(c) succeeds on the room a's createRoom has just
\* created, the room is ready with hostId a and guestId b, a is host and b is
\* guest; and from then on, as long as a session stays in room c, its role
\* does not become the other one.
CreateThenJoinRoles ==
    [][\A a, b \in Sessions : \A c \in Codes :
          /\ JoinsFresh(a, b, c) =>
                /\ rooms'[c].status = "ready"
                /\ rooms'[c].hostId = a /\ rooms'[c].guestId = b
                /\ playerRole'[a] = "host" /\ playerRole'[b] = "guest"
          /\ HostAndGuest(a, b, c) =>
                /\ roomCode'[a] = c => playerRole'[a] # "guest"
                /\ roomCode'[b] = c => playerRole'[b] # "host"]_vars

\* The three errors of joinRoom.
ErrNotFound == "Room not found. Check the code and try again."
ErrFull == "Room is full. Try a different code."
ErrInProgress == "Game already in progress."
ErrJoinFailed == "Failed to join room. Please try again."

\* C2: joinRoom goes on to its update only when the room it read exists, has
\* no guest and is waiting; otherwise it ends with the not-found error (room
\* absent), the full error (guestId set) or the in-progress error (status
\* not waiting), the store unchanged, the caller idle, without role or room;
\* and a session becomes guest only by the update of its joinRoom.
JoinChecks ==
    [][\A s \in Sessions :
          LET doc == rooms[joinPc[s].code]
              ok == Exists(doc) /\ doc.guestId = Null /\ doc.status = "waiting"
          IN  /\ (joinPc[s].pc = "get" /\ joinPc'[s].pc = "upd") => ok
              /\ (joinPc[s].pc = "get" /\ joinPc'[s] = IdleJoin
                    /\ error'[s] # ErrJoinFailed) =>
                    /\ ~ok
                    /\ error'[s] = IF ~Exists(doc) THEN ErrNotFound
                                   ELSE IF doc.guestId # Null THEN ErrFull
                                   ELSE ErrInProgress
                    /\ rooms' = rooms
                    /\ battleState'[s] = "idle"
                    /\ playerRole'[s] = Null /\ roomCode'[s] = Null
              /\ (playerRole[s] # "guest" /\ playerRole'[s] = "guest") =>
                    joinPc[s].pc = "upd"]_vars

\* Two sessions have been turned away, one from a full room and one from a
\* game in progress.
JoinChecksWitness ==
    \E s, t \in Sessions :
        /\ error[s] = ErrInProgress /\ battleState[s] = "idle" /\ playerRole[s] = Null
        /\ error[t] = ErrFull /\ battleState[t] = "idle" /\ playerRole[t] = Null

\* C3: at every moment at most one session is guest of a room, and that
\* session is the room's guestId.
OneGuestPerRoom ==
    \A c \in Codes : \A s, t \in Sessions :
        (playerRole[s] = "guest" /\ roomCode[s] = c
            /\ playerRole[t] = "guest" /\ roomCode[t] = c /\ Exists(rooms[c]))
        => (s = t /\ rooms[c].guestId = s)

\* C4: createRoom never writes over an existing room: an existing room's
\* hostId is never replaced, and at most one session is host of a code.
CreateIfAbsent ==
    [][/\ \A c \in Codes :
             (Exists(rooms[c]) /\ Exists(rooms'[c])) => rooms'[c].hostId = rooms[c].hostId
       /\ \A s, t \in Sessions :
             (playerRole'[s] = "host" /\ playerRole'[t] = "host"
                 /\ roomCode'[s] # Null /\ roomCode'[s] = roomCode'[t]) => s = t]_vars

\* C5: a createRoom all of whose MaxAttempts lookups found a room ends in
\* failure: an error is set, the caller is idle, gets no role and no room
\* code, and the store is unchanged.
CreateGivesUp ==
    [][\A s \in Sessions :
          (createPc[s].pc = "set" /\ createPc[s].attempts = MaxAttempts
              /\ createPc'[s] = IdleCreate) =>
              /\ error'[s] # Null /\ battleState'[s] = "idle"
              /\ playerRole'[s] = playerRole[s] /\ roomCode'[s] = roomCode[s]
              /\ rooms' = rooms]_vars

\* A submitGuess write reaches the document of GameCode in this step (the
\* other writers of a game change hostOp, playingWrite or budget).
GuessWritten ==
    /\ Exists(rooms[GameCode]) /\ rooms'[GameCode] # rooms[GameCode]
    /\ UNCHANGED <<hostOp, playingWrite, budget, createPc, joinPc>>

Total(d) == d.scores.host + d.scores.guest

\* The step resolves the round: roundWinner goes from null to a value.
Resolves ==
    /\ GuessWritten
    /\ rooms[GameCode].roundWinner = Null /\ rooms'[GameCode].roundWinner # Null

\* C6: a guess is recorded once per player and round: a submitGuess write is
\* the first of its player in the round (that player's guess field was null)
\* and leaves a guess already recorded as it is.
GuessRecordedOnce ==
    [][GuessWritten =>
          /\ \A f \in {"hostGuess", "guestGuess"} :
                rooms[GameCode][f] # NoGuess => rooms'[GameCode][f] = rooms[GameCode][f]
          /\ \E f \in {"hostGuess", "guestGuess"} :
                rooms[GameCode][f] = NoGuess /\ rooms'[GameCode][f] # NoGuess]_vars

\* C7: the sum of the scores counts the rounds won: it never exceeds the
\* number of rounds of the game (currentRound); a submitGuess write raises it
\* by 1 when it resolves the round with a winner and leaves it otherwise; no
\* other step changes it, but for the reset to 0.
ScoresCountWonRounds ==
    [][(Exists(rooms[GameCode]) /\ Exists(rooms'[GameCode])) =>
          /\ Total(rooms'[GameCode]) <= rooms'[GameCode].currentRound
          /\ IF GuessWritten
             THEN Total(rooms'[GameCode]) - Total(rooms[GameCode]) =
                     IF Resolves /\ rooms'[GameCode].roundWinner # "none" THEN 1 ELSE 0
             ELSE Total(rooms'[GameCode]) \in {Total(rooms[GameCode]), 0}]_vars

\* The condition under which a game is over once a round is resolved.
IsOver(d) ==
    \/ d.currentRound = d.totalRounds
    \/ d.scores.host >= WinScore \/ d.scores.guest >= WinScore

\* C8: a step that resolves a round leaves status finished when currentRound
\* is totalRounds or a score has reached WinScore, and round_end otherwise;
\* and status becomes finished only in such a step.
FinishedIffOver ==
    [][/\ Resolves =>
             rooms'[GameCode].status =
                 IF IsOver(rooms'[GameCode]) THEN "finished" ELSE "round_end"
       /\ (Exists(rooms[GameCode]) /\ Exists(rooms'[GameCode])
             /\ rooms[GameCode].status # "finished"
             /\ rooms'[GameCode].status = "finished") => Resolves]_vars

\* The strictly higher scorer, null when the scores are equal.
HigherScorer(sc) ==
    IF sc.host > sc.guest THEN "host"
    ELSE IF sc.guest > sc.host THEN "guest" ELSE Null

\* C9: the gameWinner a submitGuess write leaves with status finished is the
\* strictly higher scorer of the scores it leaves, null when they are equal.
WinnerIsHigherScorer ==
    [][(GuessWritten /\ rooms'[GameCode].status = "finished") =>
          rooms'[GameCode].gameWinner = HigherScorer(rooms'[GameCode].scores)]_vars

\* C10: in every room document gameWinner is set if and only if status is
\* finished.
WinnerIffFinished ==
    \A c \in Codes :
        Exists(rooms[c]) => (rooms[c].gameWinner # Null <=> rooms[c].status = "finished")

\* C11: in every room document roundWinner is set if and only if status is
\* round_end or finished; it is null in waiting, ready, countdown, playing.
RoundWinnerIffEnded ==
    \A c \in Codes :
        Exists(rooms[c]) =>
            (rooms[c].roundWinner # Null <=> rooms[c].status \in {"round_end", "finished"})

\* The edges of the room's state machine, the leave edge apart.
Edges ==
    {<<"waiting", "ready">>, <<"ready", "countdown">>, <<"countdown", "playing">>,
     <<"playing", "round_end">>, <<"playing", "finished">>,
     <<"round_end", "countdown">>, <<"finished", "countdown">>}

\* C12: every change of a room's status follows an edge of the state
\* machine, or is the guest's leave (guestId cleared, status waiting).
StatusFollowsEdges ==
    [][\A c \in Codes :
          (Exists(rooms[c]) /\ Exists(rooms'[c])
              /\ rooms'[c].status # rooms[c].status) =>
              \/ <<rooms[c].status, rooms'[c].status>> \in Edges
              \/ /\ rooms'[c].status = "waiting"
                 /\ rooms[c].guestId # Null /\ rooms'[c].guestId = Null]_vars

\* A playAgain write arrives in this step (the start of another game).
PlayAgainLands == \E s \in Sessions : hostOp[s].op = "playAgain" /\ hostOp'[s] = NoOp

\* C13: within a game neither score ever decreases.
ScoresNeverDecrease ==
    [][\A c \in Codes :
          (Exists(rooms[c]) /\ Exists(rooms'[c]) /\ ~PlayAgainLands) =>
              /\ rooms'[c].scores.host >= rooms[c].scores.host
              /\ rooms'[c].scores.guest >= rooms[c].scores.guest]_vars

\* C14: two wrong guesses in a round resolve it: the room is never playing
\* and unresolved with a wrong guess recorded for each player.
BothWrongResolves ==
    \A c \in Codes :
        Exists(rooms[c]) =>
            ~ /\ rooms[c].status = "playing" /\ rooms[c].roundWinner = Null
              /\ rooms[c].hostGuess # NoGuess /\ rooms[c].guestGuess # NoGuess
              /\ ~rooms[c].hostGuess.correct /\ ~rooms[c].guestGuess.correct

\* C15: startGame, nextRound, playAgain and the countdown effect's write are
\* issued only by a session whose playerRole is host; a step of a session
\* that is not host (its round-end timer, its countdown) issues none of them.
HostOnlyWrites ==
    [][\A s \in Sessions :
          /\ (hostOp'[s] # hostOp[s] /\ hostOp'[s] # NoOp) => playerRole[s] = "host"
          /\ (playingWrite'[s] # playingWrite[s] /\ playingWrite'[s] # Null) =>
                playerRole[s] = "host"]_vars

\* The guest's round-end interval has elapsed (its timer is no longer armed
\* in round_end) and it has no call pending.
HostOnlyWritesWitness ==
    \E s \in Sessions :
        /\ playerRole[s] = "guest" /\ battleState[s] = "round_end"
        /\ ~timerArmed[s] /\ hostOp[s] = NoOp /\ playingWrite[s] = Null

\* Session s leaves in this step: a button is pressed and its roomCode is
\* cleared (the listener's reset on a deleted room presses no button).
LeaveStep(s) == budget' = budget - 1 /\ roomCode[s] # Null /\ roomCode'[s] = Null

\* C16: leaveRoom by the host deletes the room document; by the guest it
\* sets guestId to null and status to waiting and changes no other field of
\* the document; no other room and no other session's roomCode or role is
\* touched, so the host stays in the room as host. (A rejected write, which
\* the catch block logs, leaves the store as it was.)
LeaveWrites ==
    [][\A s \in Sessions : LeaveStep(s) =>
          LET c == roomCode[s] IN
          /\ \A d \in Codes \ {c} : rooms'[d] = rooms[d]
          /\ \A x \in Sessions \ {s} :
                roomCode'[x] = roomCode[x] /\ playerRole'[x] = playerRole[x]
          /\ playerRole[s] = "host" => (rooms'[c] = Absent \/ rooms'[c] = rooms[c])
          /\ (playerRole[s] = "guest" /\ Exists(rooms[c])) =>
                /\ Exists(rooms'[c])
                /\ \A f \in DOMAIN rooms[c] \ {"guestId", "status"} :
                      rooms'[c][f] = rooms[c][f]
                /\ \/ rooms'[c].guestId = Null /\ rooms'[c].status = "waiting"
                   \/ rooms'[c] = rooms[c]]_vars

\* The guest has left a finished game: the document is back in waiting
\* without a guest, with the game's result still in it, and the host is
\* still in the room as host.
LeaveWritesWitness ==
    \E c \in Codes :
        /\ Exists(rooms[c])
        /\ rooms[c].guestId = Null /\ rooms[c].status = "waiting"
        /\ rooms[c].gameWinner # Null
        /\ roomCode[rooms[c].hostId] = c /\ playerRole[rooms[c].hostId] = "host"
        /\ \A s \in Sessions \ {rooms[c].hostId} : roomCode[s] = Null

\* The local state of s after a reset.
IsReset(s) ==
    /\ roomCode[s] = Null /\ room[s] = NoRoom
    /\ playerRole[s] = Null /\ battleState[s] = "idle"

\* C17: once the host's leave has deleted the room, every session still
\* subscribed to it is eventually reset (idle; roomCode, room and playerRole
\* cleared), the subscription delivering the deletion.
DeletedRoomResetsGuests ==
    \A s \in Sessions : \A c \in Codes :
        (roomCode[s] = c /\ playerRole[s] = "guest" /\ ~Exists(rooms[c])) ~> IsReset(s)

\* The host has left and deleted the room; a guest has not heard of it yet.
DeletedRoomResetsGuestsWitness ==
    \E s \in Sessions : \E c \in Codes :
        /\ roomCode[s] = c /\ playerRole[s] = "guest" /\ ~Exists(rooms[c])
        /\ room[s] # NoRoom /\ room[s].hostId # s /\ roomCode[room[s].hostId] = Null

\* A leave is pressed in this step: a button press that starts no create,
\* join, startGame or playAgain call.
LeavePressed ==
    /\ budget' = budget - 1
    /\ createPc' = createPc /\ joinPc' = joinPc /\ hostOp' = hostOp

\* C18: leaveRoom by a session in a room ends with that session's state
\* reset (idle; roomCode, room, playerRole null; error cleared), whatever
\* its role and whether or not the store accepted the write.
LeaveAlwaysResets ==
    [][LeavePressed =>
          \E s \in Sessions :
              /\ roomCode[s] # Null
              /\ roomCode'[s] = Null /\ room'[s] = NoRoom /\ playerRole'[s] = Null
              /\ battleState'[s] = "idle" /\ error'[s] = Null]_vars

\* The host's delete was rejected: the document still names the session as
\* host, and the session is reset all the same.
LeaveAlwaysResetsWitness ==
    \E c \in Codes :
        /\ Exists(rooms[c])
        /\ IsReset(rooms[c].hostId) /\ error[rooms[c].hostId] = Null

\* C19: a guess never lands in a room that is not in status playing: while
\* the document is in waiting, ready, countdown, round_end or finished no
\* step records a guess in it (nor, with it, scores, roundWinner, status).
GuessOnlyWhilePlaying ==
    [][\A c \in Codes :
          (Exists(rooms[c]) /\ Exists(rooms'[c]) /\ rooms[c].status # "playing") =>
              /\ rooms'[c].hostGuess \in {rooms[c].hostGuess, NoGuess}
              /\ rooms'[c].guestGuess \in {rooms[c].guestGuess, NoGuess}]_vars

\* The guess field of a role in a document, and the other role.
GuessOf(doc, role) == IF role = "host" THEN doc.hostGuess ELSE doc.guestGuess
OtherRole(role) == IF role = "host" THEN "guest" ELSE "host"

\* Session s, eligible and with an up-to-date snapshot, has its guess
\* recorded in this step.
FreshGuessStep(s) ==
    /\ roomCode[s] # Null /\ playerRole[s] # Null
    /\ Exists(rooms[roomCode[s]]) /\ Exists(rooms'[roomCode[s]])
    /\ room[s] = rooms[roomCode[s]]
    /\ room[s].status = "playing" /\ room[s].currentPokemon # Null
    /\ GuessOf(rooms[roomCode[s]], playerRole[s]) = NoGuess
    /\ GuessOf(rooms'[roomCode[s]], playerRole[s]) # NoGuess

\* C20: an eligible guess written from an up-to-date snapshot follows the
\* resolution rule. A correct guess adds one to the caller's score only,
\* makes the caller roundWinner and sets status to finished when
\* currentRound >= totalRounds or the new score reaches 3, to round_end
\* otherwise. A wrong guess, the other player not having guessed or having
\* a correct guess recorded, changes the caller's guess field only.
\* submitGuess returns true exactly when the guess is correct.
FreshGuessFollowsRule ==
    [][\A s \in Sessions : FreshGuessStep(s) =>
          LET d == rooms[roomCode[s]]
              e == rooms'[roomCode[s]]
              me == playerRole[s]
              gd == GuessOf(e, me)
              other == GuessOf(d, OtherRole(me))
          IN  /\ gd.correct <=> gd.guess = d.currentPokemon
              /\ SubmitGuessResult(s, gd.guess) <=> gd.correct
              /\ gd.correct =>
                    /\ e.scores[me] = d.scores[me] + 1
                    /\ e.scores[OtherRole(me)] = d.scores[OtherRole(me)]
                    /\ e.roundWinner = me
                    /\ e.status = IF d.currentRound >= d.totalRounds \/ e.scores[me] >= 3
                                  THEN "finished" ELSE "round_end"
                    /\ \A f \in DOMAIN d \ {"hostGuess", "guestGuess", "scores",
                                              "roundWinner", "status", "gameWinner"} :
                          e[f] = d[f]
                    /\ GuessOf(e, OtherRole(me)) = other
              /\ (~gd.correct /\ (other = NoGuess \/ other.correct)) =>
                    /\ \A f \in DOMAIN d \ {"hostGuess", "guestGuess"} : e[f] = d[f]
                    /\ GuessOf(e, OtherRole(me)) = other]_vars

\* A correct guess from an up-to-date snapshot has ended the game on the
\* score: the guest has its third point in a round before the last.
FreshGuessFollowsRuleWitness ==
    \E c \in Codes :
        /\ Exists(rooms[c]) /\ rooms[c].status = "finished"
        /\ rooms[c].roundWinner = "guest" /\ rooms[c].scores.guest = 3
        /\ rooms[c].guestGuess # NoGuess /\ rooms[c].guestGuess.correct
        /\ rooms[c].currentRound < rooms[c].totalRounds

\* The pending call op of session s writes to the room in this step.
HostWriteLands(s, op) ==
    /\ hostOp[s].op = op /\ hostOp'[s] = NoOp
    /\ Exists(rooms[hostOp[s].code])
    /\ rooms'[hostOp[s].code] # rooms[hostOp[s].code]

\* C21: a nextRound write changes a room only when the room is in
\* round_end; it then sets status to countdown, raises currentRound by one
\* over the document's value, clears roundWinner and both guesses and keeps
\* scores.
NextRoundOnlyInRoundEnd ==
    [][\A s \in Sessions : HostWriteLands(s, "nextRound") =>
          LET d == rooms[hostOp[s].code]
              e == rooms'[hostOp[s].code]
          IN  /\ d.status = "round_end"
              /\ e.status = "countdown"
              /\ e.currentRound = d.currentRound + 1
              /\ e.roundWinner = Null
              /\ e.hostGuess = NoGuess /\ e.guestGuess = NoGuess
              /\ e.scores = d.scores]_vars

\* C22: a playAgain write changes a room only when the room is finished; it
\* then sets scores to 0-0, currentRound to 1 and status to countdown, and
\* clears gameWinner, roundWinner and both guesses.
PlayAgainOnlyWhenFinished ==
    [][\A s \in Sessions : HostWriteLands(s, "playAgain") =>
          LET d == rooms[hostOp[s].code]
              e == rooms'[hostOp[s].code]
          IN  /\ d.status = "finished"
              /\ e.status = "countdown"
              /\ e.currentRound = 1
              /\ e.scores = [host |-> 0, guest |-> 0]
              /\ e.gameWinner = Null /\ e.roundWinner = Null
              /\ e.hostGuess = NoGuess /\ e.guestGuess = NoGuess]_vars

\* C23: every error reported to a session leaves it idle: a step that sets
\* a new error message ends with battleState idle.
ErrorLeavesIdle ==
    [][\A s \in Sessions :
          (error'[s] # Null /\ error'[s] # error[s]) => battleState'[s] = "idle"]_vars

\* ------------------------------------------------- generateRoomCode
\* const chars, one element per character.
Chars ==
    <<"A", "B", "C", "D", "E", "F", "G", "H", "J", "K", "L", "M", "N", "P", "Q",
      "R", "S", "T", "U", "V", "W", "X", "Y", "Z", "2", "3", "4", "5", "6", "7",
      "8", "9">>

\* The loop bound of generateRoomCode.
CodeLength == 6

\* Values of Math.floor(Math.random() * chars.length) the model draws: the
\* first and last index and the indexes around H|J, N|P and Z|2.
Draws == {0, 7, 8, 13, 23, 24, Len(Chars) - 1}

\* chars.charAt(k)
CharAt(k) == Chars[k + 1]

\* generateRoomCode is called: let code = ''.
GenerateStart(s) ==
    /\ createPc[s].pc \in {"idle", "generated"}
    /\ createPc' = [createPc EXCEPT ![s] =
                      [pc |-> "generating", code |-> << >>, attempts |-> 0]]
    /\ UNCHANGED <<rooms, roomCode, room, playerRole, battleState, error, joinPc,
                   hostOp, playingWrite, timerArmed, budget, lag, lagBound>>

\* One turn of the loop: code += chars.charAt(...).
GenerateChar(s, k) ==
    /\ createPc[s].pc = "generating"
    /\ Len(createPc[s].code) < CodeLength
    /\ createPc' = [createPc EXCEPT ![s].code = Append(@, CharAt(k))]
    /\ UNCHANGED <<rooms, roomCode, room, playerRole, battleState, error, joinPc,
                   hostOp, playingWrite, timerArmed, budget, lag, lagBound>>

\* A loop that would stop one turn early.
GenerateReturnEarly(s) ==
    /\ createPc[s].pc = "generating"
    /\ Len(createPc[s].code) >= CodeLength - 1
    /\ createPc' = [createPc EXCEPT ![s].pc = "generated"]
    /\ UNCHANGED <<rooms, roomCode, room, playerRole, battleState, error, joinPc,
                   hostOp, playingWrite, timerArmed, budget, lag, lagBound>>

\* The loop is over: return code.
GenerateReturn(s) ==
    /\ createPc[s].pc = "generating"
    /\ Len(createPc[s].code) >= CodeLength
    /\ createPc' = [createPc EXCEPT ![s].pc = "generated"]
    /\ UNCHANGED <<rooms, roomCode, room, playerRole, battleState, error, joinPc,
                   hostOp, playingWrite, timerArmed, budget, lag, lagBound>>

\* One session generating codes, one after the other.
GenNext ==
    \/ GenerateStart("p1")
    \/ \E k \in Draws : GenerateChar("p1", k)
    \/ GenerateReturn("p1")

GenSpec == Init /\ [][GenNext]_vars

\* The characters of the alphabet, and those the spec calls ambiguous.
Alphabet == {Chars[i] : i \in 1..Len(Chars)}
Ambiguous == {"0", "O", "1", "I"}

\* Every code generateRoomCode has returned is made of CodeLength characters
\* of the alphabet.
GeneratedCodesWellFormed ==
    \A s \in Sessions : createPc[s].pc = "generated" =>
        /\ Len(createPc[s].code) = 6
        /\ \A i \in 1..Len(createPc[s].code) : createPc[s].code[i] \in Alphabet
        /\ Alphabet \cap Ambiguous = {}

\* C24: every generated room code is 6 characters long, each drawn from one
\* fixed alphabet of 32 characters that contains none of 0, O, 1 and I.
RoomCodeAlphabet32 == GeneratedCodesWellFormed /\ Cardinality(Alphabet) = 32

\* C24 as stated: the same with an alphabet of 33 characters.
RoomCodeAlphabet33 ==
    (\E s \in Sessions : createPc[s].pc = "generated") =>
        (GeneratedCodesWellFormed /\ Cardinality(Alphabet) = 33)

\* A code has been returned whose last character is the last of the alphabet.
RoomCodeAlphabet32Witness ==
    \E s \in Sessions :
        /\ createPc[s].pc = "generated"
        /\ createPc[s].code[CodeLength] = Chars[Len(Chars)]
        /\ createPc[s].code[1] = Chars[1]

\* The countdown effect's write of session s changes the room in this step.
PlayingWriteChanges(s) ==
    /\ playingWrite[s] # Null /\ playingWrite'[s] = Null
    /\ rooms'[playingWrite[s]] # rooms[playingWrite[s]]

\* C25: a session that has left a room writes to it no more: every write of
\* startGame, nextRound, playAgain or the countdown effect that changes a
\* room comes from a session that is still in that room.
NoWriteAfterLeave ==
    [][\A s \in Sessions :
          /\ (hostOp[s] # NoOp /\ hostOp'[s] = NoOp
                 /\ rooms'[hostOp[s].code] # rooms[hostOp[s].code]) =>
                     roomCode[s] = hostOp[s].code
          /\ PlayingWriteChanges(s) => roomCode[s] = playingWrite[s]]_vars

\* C26: both guesses are null whenever a room is in countdown and at the
\* moment it becomes playing.
GuessesClearedAtRoundStart ==
    [][\A c \in Codes :
          (/\ Exists(rooms'[c])
           /\ \/ rooms'[c].status = "countdown"
              \/ /\ rooms'[c].status = "playing"
                 /\ Exists(rooms[c]) /\ rooms[c].status # "playing") =>
              /\ rooms'[c].hostGuess = NoGuess
              /\ rooms'[c].guestGuess = NoGuess]_vars

\* C27: totalRounds is 5 in every room and currentRound never exceeds it.
RoundsWithinTotal ==
    \A c \in Codes : Exists(rooms[c]) =>
        /\ rooms[c].totalRounds = 5
        /\ rooms[c].currentRound <= rooms[c].totalRounds

\* C28: every game starts from a clean slate: when a startGame write moves
\* a room to countdown with currentRound 1, scores are 0-0 and gameWinner
\* is null.
StartGameCleanSlate ==
    [][\A s \in Sessions : HostWriteLands(s, "startGame") =>
          LET e == rooms'[hostOp[s].code]
          IN  (e.status = "countdown" /\ e.currentRound = 1) =>
                  /\ e.scores = [host |-> 0, guest |-> 0]
                  /\ e.gameWinner = Null]_vars

\* C29: a room that is not waiting has a guest.
GuestPresentUnlessWaiting ==
    \A c \in Codes :
        (Exists(rooms[c]) /\ rooms[c].status # "waiting") => rooms[c].guestId # Null

\* C30: with both players present and nothing failing, a started game
\* eventually reaches status finished.
GameEventuallyFinished == <>(rooms[GameCode].status = "finished")

====
